---- MODULE Spec2Model ----
(***************************************************************************)
(* A model of the FTDI/MPSSE JTAG probe of src/main.rs (FtdiProbe) driving *)
(* a simulated chain of TAPs.                                              *)
(*                                                                         *)
(* The probe's functions are operators named as in the source; each takes  *)
(* and returns a call context `c` (the simulated hardware, the bytes       *)
(* waiting in the transport, and a log of what the call did).  The         *)
(* hardware side is the MPSSE engine (FTDI AN_108 opcodes as the source     *)
(* emits them) and a chain of IEEE 1149.1 TAPs.                             *)
(*                                                                         *)
(* Conventions.  A byte is a number 0..255, a buffer is a sequence of      *)
(* bytes, a bit string is a sequence of 0/1 with the first-shifted (least  *)
(* significant) bit first.  A u32 that may need all 32 bits (an IDCODE, a   *)
(* register value, the IR word) is held as its 4 little-endian bytes or as *)
(* its 32 bits.  chain[1] is the TAP whose TDO is wired to the probe: its   *)
(* bits come out of a scan first.                                          *)
(***************************************************************************)
EXTENDS Integers, Sequences, FiniteSets, TLC

VARIABLES
    chain,          \* the simulated chain: a sequence of [idcode, irlen]
    build,          \* what the run has shown of the build profile
    undef,          \* the level of every bit the hardware leaves undefined
    dev,            \* the hardware: TAP state, TMS pin, registers
    rx,             \* bytes the engine has sent and the probe has not read
    chain_params,   \* FtdiProbe.chain_params: None or a ChainParams record
    idle_cycles,    \* FtdiProbe.idle_cycles
    alive,          \* FALSE once a call has panicked (the process is gone)
    last            \* what the last call did and returned

vars == <<chain, build, undef, dev, rx, chain_params, idle_cycles, alive, last>>

\* ------------------------------------------------------------------ bits

Bit(b, i) == (b \div (2^i)) % 2

\* The first n bits of a buffer, least significant bit of each byte first.
BitsOf(bytes, n) == [i \in 1..n |-> Bit(bytes[((i - 1) \div 8) + 1], (i - 1) % 8)]

BitAt(bits, k) == IF k >= 1 /\ k <= Len(bits) THEN bits[k] ELSE 0

\* A bit string packed into bytes, the last byte zero-filled.
BytesOf(bits) ==
    [j \in 1..((Len(bits) + 7) \div 8) |->
        BitAt(bits, 8*j - 7) + 2 * BitAt(bits, 8*j - 6) + 4 * BitAt(bits, 8*j - 5)
        + 8 * BitAt(bits, 8*j - 4) + 16 * BitAt(bits, 8*j - 3)
        + 32 * BitAt(bits, 8*j - 2) + 64 * BitAt(bits, 8*j - 1)
        + 128 * BitAt(bits, 8*j)]

Fill(n, v) == [i \in 1..n |-> v]

RECURSIVE Flatten(_)
Flatten(ss) == IF ss = <<>> THEN <<>> ELSE Head(ss) \o Flatten(Tail(ss))

\* The value of a short bit string (fewer than 31 bits).
RECURSIVE ValueOf(_)
ValueOf(bits) == IF bits = <<>> THEN 0 ELSE Head(bits) + 2 * ValueOf(Tail(bits))

\* ------------------------------------------------------- the TAP machine

TapStates ==
    {"TLR", "RTI", "SelectDR", "CaptureDR", "ShiftDR", "Exit1DR", "PauseDR",
     "Exit2DR", "UpdateDR", "SelectIR", "CaptureIR", "ShiftIR", "Exit1IR",
     "PauseIR", "Exit2IR", "UpdateIR"}

\* The 16-state TAP controller of IEEE 1149.1: the state after one TCK with
\* TMS at level t.
TapNext(s, t) ==
    CASE s = "TLR"       -> IF t = 1 THEN "TLR" ELSE "RTI"
      [] s = "RTI"       -> IF t = 1 THEN "SelectDR" ELSE "RTI"
      [] s = "SelectDR"  -> IF t = 1 THEN "SelectIR" ELSE "CaptureDR"
      [] s = "CaptureDR" -> IF t = 1 THEN "Exit1DR" ELSE "ShiftDR"
      [] s = "ShiftDR"   -> IF t = 1 THEN "Exit1DR" ELSE "ShiftDR"
      [] s = "Exit1DR"   -> IF t = 1 THEN "UpdateDR" ELSE "PauseDR"
      [] s = "PauseDR"   -> IF t = 1 THEN "Exit2DR" ELSE "PauseDR"
      [] s = "Exit2DR"   -> IF t = 1 THEN "UpdateDR" ELSE "ShiftDR"
      [] s = "UpdateDR"  -> IF t = 1 THEN "SelectDR" ELSE "RTI"
      [] s = "SelectIR"  -> IF t = 1 THEN "TLR" ELSE "CaptureIR"
      [] s = "CaptureIR" -> IF t = 1 THEN "Exit1IR" ELSE "ShiftIR"
      [] s = "ShiftIR"   -> IF t = 1 THEN "Exit1IR" ELSE "ShiftIR"
      [] s = "Exit1IR"   -> IF t = 1 THEN "UpdateIR" ELSE "PauseIR"
      [] s = "PauseIR"   -> IF t = 1 THEN "Exit2IR" ELSE "PauseIR"
      [] s = "Exit2IR"   -> IF t = 1 THEN "UpdateIR" ELSE "ShiftIR"
      [] s = "UpdateIR"  -> IF t = 1 THEN "SelectDR" ELSE "RTI"

\* ------------------------------------------------------ the chain of TAPs

NTaps == Len(chain)

RECURSIVE IrSum(_, _)
\* The IR bits of TAPs a..b of the chain.
IrSum(a, b) == IF a > b THEN 0 ELSE chain[a].irlen + IrSum(a + 1, b)

\* Instruction codes of the simulated TAP: all ones is BYPASS, 1 is IDCODE
\* (the instruction a TAP holds after Test-Logic-Reset), any other selects the
\* TAP's 32-bit data register, which captures what was last updated into it.
BypassOf(i) == 2^(chain[i].irlen) - 1

DrKind(d, i) ==
    IF d.instr[i] = BypassOf(i) THEN "bypass"
    ELSE IF d.instr[i] = 1 THEN "idcode" ELSE "reg"

DrLen(d, i) == IF DrKind(d, i) = "bypass" THEN 1 ELSE 32

RECURSIVE DrSum(_, _, _)
DrSum(d, a, b) == IF a > b THEN 0 ELSE DrLen(d, a) + DrSum(d, a + 1, b)

\* Capture-IR loads binary 0...01 into every TAP's instruction register.
CaptureIrBits ==
    Flatten([i \in 1..NTaps |-> <<1>> \o Fill(chain[i].irlen - 1, 0)])

CaptureDrBits(d) ==
    Flatten([i \in 1..NTaps |->
        CASE DrKind(d, i) = "bypass" -> <<0>>
          [] DrKind(d, i) = "idcode" -> BitsOf(chain[i].idcode, 32)
          [] OTHER -> d.reg[i]])

\* Update-IR: every TAP latches its own part of the IR shift path.
UpdateIrOf(d) ==
    [i \in 1..NTaps |->
        ValueOf(SubSeq(d.irsr, IrSum(1, i - 1) + 1, IrSum(1, i)))]

\* Update-DR: a TAP whose data register is selected stores its part of the DR
\* shift path; BYPASS and IDCODE store nothing.
UpdateDrOf(d) ==
    [i \in 1..NTaps |->
        IF DrKind(d, i) = "reg" /\ Len(d.drsr) = DrSum(d, 1, NTaps)
        THEN SubSeq(d.drsr, DrSum(d, 1, i - 1) + 1, DrSum(d, 1, i))
        ELSE d.reg[i]]

\* What the TAPs do on entering state s.  A shift path is forgotten once it
\* has been latched: no walk shifts it again before a Capture reloads it.
Enter(d, s) ==
    CASE s = "TLR"      -> [d EXCEPT !.fsm = s, !.instr = [i \in 1..NTaps |-> 1]]
      [] s = "UpdateIR" ->
            [d EXCEPT !.fsm = s, !.instr = UpdateIrOf(d), !.irsr = <<>>]
      [] s = "UpdateDR" ->
            [d EXCEPT !.fsm = s, !.reg = UpdateDrOf(d), !.drsr = <<>>]
      [] OTHER          -> [d EXCEPT !.fsm = s]

\* The level on TDO during a clock: the bit at the TDO end of the selected
\* shift path while shifting (TDI itself when the path is empty: no TAP), and
\* undriven otherwise.
Tdo(d, tdi) ==
    IF NTaps = 0 THEN tdi
    ELSE IF d.fsm = "ShiftDR" THEN (IF d.drsr = <<>> THEN tdi ELSE Head(d.drsr))
    ELSE IF d.fsm = "ShiftIR" THEN (IF d.irsr = <<>> THEN tdi ELSE Head(d.irsr))
    ELSE undef

\* One rising edge of TCK with TMS = t and TDI = tdi.
Clock(d, t, tdi) ==
    LET acted ==
            CASE d.fsm = "CaptureDR" -> [d EXCEPT !.drsr = CaptureDrBits(d)]
              [] d.fsm = "CaptureIR" -> [d EXCEPT !.irsr = CaptureIrBits]
              [] d.fsm = "ShiftDR" /\ d.drsr # <<>> ->
                    [d EXCEPT !.drsr = Tail(d.drsr) \o <<tdi>>]
              [] d.fsm = "ShiftIR" /\ d.irsr # <<>> ->
                    [d EXCEPT !.irsr = Tail(d.irsr) \o <<tdi>>]
              [] OTHER -> d
    IN  Enter([acted EXCEPT !.tms = t], TapNext(d.fsm, t))

\* A state the TAP stays in while TMS stays at t.
Stays(s, t) == TapNext(s, t) = s

\* n clocks in a state the TAP stays in: the shift path takes the n TDI bits
\* at once (n single shifts), nothing else changes.
Shifted(sr, tdis) ==
    IF sr = <<>> THEN sr
    ELSE SubSeq(sr \o tdis, Len(tdis) + 1, Len(tdis) + Len(sr))

ShiftedOut(sr, tdis) == SubSeq(sr \o tdis, 1, Len(tdis))

\* Len(tdis) clocks with TMS held at t, in a state the TAP stays in at t.
ClockRun(d, t, tdis) ==
    [d |-> CASE d.fsm = "ShiftDR" ->
                    [d EXCEPT !.tms = t, !.drsr = Shifted(d.drsr, tdis)]
             [] d.fsm = "ShiftIR" ->
                    [d EXCEPT !.tms = t, !.irsr = Shifted(d.irsr, tdis)]
             [] OTHER -> [d EXCEPT !.tms = t],
     tdo |-> IF NTaps = 0 THEN tdis
             ELSE IF d.fsm = "ShiftDR" THEN ShiftedOut(d.drsr, tdis)
             ELSE IF d.fsm = "ShiftIR" THEN ShiftedOut(d.irsr, tdis)
             ELSE Fill(Len(tdis), undef),
     walk |-> Fill(Len(tdis), d.fsm)]

\* A clock's TDO level and new TAP state put before what the later clocks
\* gave.
ClockBefore(tdo, fsm, rest) ==
    [d |-> rest.d, tdo |-> <<tdo>> \o rest.tdo, walk |-> <<fsm>> \o rest.walk]

RECURSIVE Clocks(_, _, _)
\* The first clock took the hardware from d to d1; the other clocks follow.
ClocksFrom(d, d1, tmss, tdis) ==
    ClockBefore(Tdo(d, Head(tdis)), d1.fsm, Clocks(d1, Tail(tmss), Tail(tdis)))

\* One clock per element of tmss, TDI at the level of tdis on it.  Returns
\* the hardware after the clocks, the TDO level sampled on each clock and the
\* TAP state after each clock.
Clocks(d, tmss, tdis) ==
    IF tmss = <<>> THEN [d |-> d, tdo |-> <<>>, walk |-> <<>>]
    ELSE IF Stays(d.fsm, Head(tmss)) /\ tmss = Fill(Len(tmss), Head(tmss))
    THEN ClockRun(d, Head(tmss), tdis)
    ELSE ClocksFrom(d, Clock(d, Head(tmss), Head(tdis)), tmss, tdis)

\* ------------------------------------------------------ the MPSSE engine

\* A partial byte read LSB first: the engine shifts each sampled bit in at
\* bit 7, so the m bits read end in the top m bits of the byte, the first bit
\* read lowest; the bits below them were not shifted in by this command.
CaptureByte(tdos) == BytesOf(Fill(8 - Len(tdos), undef) \o tdos)[1]

\* The command at the head of a buffer, TMS being at level tms: the levels it
\* puts on TMS and TDI clock by clock, whether it samples TDO, and its length.
\*   4b/6b len byte : len+1 clocks, TMS = bits 0.. of byte, TDI = bit 7 of it
\*   19/39 n16 data : the n16+1 bytes of data on TDI, LSB first, TMS as it is
\*   1b/3b len byte : len+1 bits of byte on TDI, LSB first, TMS as it is
\*   80/82 value direction : set the pins of the low / high byte, no clock
\*   85 : loopback off, no clock
\* 6b, 39 and 3b also sample TDO on every clock.
MpsseCommand(tms, cmd) ==
    LET op == cmd[1]
        n == cmd[2] + 256 * cmd[3] + 1
    IN  CASE op \in {75, 107} ->    \* 0x4b, 0x6b
                [tms |-> BitsOf(<<cmd[3]>>, cmd[2] + 1),
                 tdi |-> Fill(cmd[2] + 1, Bit(cmd[3], 7)),
                 capture |-> op = 107, used |-> 3]
          [] op \in {25, 57} ->     \* 0x19, 0x39
                [tms |-> Fill(8 * n, tms),
                 tdi |-> BitsOf(SubSeq(cmd, 4, 3 + n), 8 * n),
                 capture |-> op = 57, used |-> 3 + n]
          [] op \in {27, 59} ->     \* 0x1b, 0x3b
                [tms |-> Fill(cmd[2] + 1, tms),
                 tdi |-> BitsOf(<<cmd[3]>>, cmd[2] + 1),
                 capture |-> op = 59, used |-> 3]
          [] op \in {128, 130} ->   \* 0x80, 0x82
                [tms |-> <<>>, tdi |-> <<>>, capture |-> FALSE, used |-> 3]
          [] op = 133 ->            \* 0x85
                [tms |-> <<>>, tdi |-> <<>>, capture |-> FALSE, used |-> 1]

\* The pins as the command at the head of a buffer sets them: 0x80 puts
\* bit 3 of its value on TMS.
PinsSet(d, cmd) ==
    IF cmd[1] = 128 THEN [d EXCEPT !.tms = Bit(cmd[2], 3)] ELSE d

\* The bytes sent back for the TDO levels a command sampled.
MpsseReply(k, tdos) ==
    IF ~k.capture THEN <<>>
    ELSE IF Len(tdos) % 8 = 0 THEN BytesOf(tdos)
    ELSE <<CaptureByte(tdos)>>

\* Command k, which ran as r, put before what the later commands gave.
MpsseBefore(k, r, rest) ==
    [d |-> rest.d, reply |-> MpsseReply(k, r.tdo) \o rest.reply,
     tms |-> k.tms \o rest.tms, tdi |-> k.tdi \o rest.tdi,
     walk |-> r.walk \o rest.walk]

RECURSIVE Mpsse(_, _)
MpsseThen(cmd, k, r) ==
    MpsseBefore(k, r, Mpsse(r.d, SubSeq(cmd, k.used + 1, Len(cmd))))

MpsseRun(d, cmd, k) == MpsseThen(cmd, k, Clocks(PinsSet(d, cmd), k.tms, k.tdi))

\* The engine executing a buffer of commands: the hardware afterwards, the
\* bytes it sends back, and TMS, TDI and the TAP state per clock.
Mpsse(d, cmd) ==
    IF cmd = <<>>
    THEN [d |-> d, reply |-> <<>>, tms |-> <<>>, tdi |-> <<>>, walk |-> <<>>]
    ELSE MpsseRun(d, cmd, MpsseCommand(d.tms, cmd))

\* ------------------------------------------------------ the call context

\* A call and its arguments; f names the method.
NoArg == [f |-> "", id |-> <<>>, address |-> 0, data |-> <<>>, bits |-> 0]

None == [none |-> TRUE]

Some(x) == [some |-> x]

\* What a call starts from: the hardware and the transport as they are, and
\* an empty log.  status is "ok" until the call fails: an io::ErrorKind
\* ("TimedOut", "InvalidData", "NotFound", "Other", "InvalidInput") or
\* "panic".  A failed context passes through every later step unchanged, as
\* `?` returns early.  The context runs as the release build does, where
\* arithmetic wraps: overflowed says that something wrapped in the call, and
\* debug is the context in which the debug build panicked there.  scan_ok
\* says that a scan returned Ok in the call, and scanned what.  late is the
\* number of reply bytes the transport will deliver only after the next
\* read_response of the call has run into its timeout; events is the log of
\* what the call did besides clocking: see Event.
Begin ==
    [dev |-> dev, rx |-> rx, status |-> "ok", value |-> <<>>, writes |-> <<>>,
     tms |-> <<>>, tdi |-> <<>>, walk |-> <<>>, params |-> chain_params,
     scanned |-> <<>>, scan_ok |-> FALSE, overflowed |-> FALSE, debug |-> None,
     late |-> 0, events |-> <<>>]

\* An entry of the log of a call: a call of a transport function by its
\* name, a read_response (n the size asked for, m the bytes that had arrived
\* when it returned), or a boundary test of scan ("ir": n the accumulator,
\* m the index of the target).
Event(ev, n, m) == [ev |-> ev, n |-> n, m |-> m]

Logged(c, ev, n, m) == [c EXCEPT !.events = Append(@, Event(ev, n, m))]

Ok(c) == c.status = "ok"

Fail(c, kind) == [c EXCEPT !.status = kind, !.value = <<>>]

\* An arithmetic overflow in context c, if over: the debug build panics.
Overflow(c, over) ==
    IF over /\ ~c.overflowed
    THEN [c EXCEPT !.overflowed = TRUE, !.debug = Fail(c, "panic")]
    ELSE c

\* The methods of the probe below take the context and return it; Do, at
\* their end, runs the engine for write_all and is the entry to them.
RECURSIVE Do(_, _)

\* device.write_all: the engine executes the buffer at once.
Written(c, cmd, r) ==
    [c EXCEPT !.dev = r.d, !.rx = @ \o r.reply, !.writes = Append(@, cmd),
              !.tms = @ \o r.tms, !.tdi = @ \o r.tdi, !.walk = @ \o r.walk,
              !.events = Append(@, Event("write_all", cmd[1], Len(cmd)))]

write_all(c, cmd) ==
    IF ~Ok(c) THEN c
    ELSE Do(c, [NoArg EXCEPT !.f = "write_all", !.data = cmd])

\* read_response taking the first size bytes of what has arrived.
ReadResultAtLeast(c, size, result, later) ==
    IF Len(result) < size THEN [Fail(c, "TimedOut") EXCEPT !.rx = later]
    ELSE [c EXCEPT !.value = SubSeq(result, 1, size), !.rx = later]

\* read_response from the end of its loop on: result is what read_to_end
\* has collected, later what is still on its way.
ReadResult(c, size, result, later) ==
    IF Len(result) < size THEN [Fail(c, "TimedOut") EXCEPT !.rx = later]
    ELSE IF Len(result) > size THEN [Fail(c, "InvalidData") EXCEPT !.rx = later]
    ELSE [c EXCEPT !.value = result, !.rx = later]

\* The bytes of rx that arrive before the timeout, n of them coming late.
InTime(bytes, n) == SubSeq(bytes, 1, Len(bytes) - n)

Late(bytes, n) == SubSeq(bytes, Len(bytes) - n + 1, Len(bytes))

\* read_response: read_to_end takes every byte that has arrived; fewer than
\* size and the loop runs into the timeout, more than size is InvalidData.
\* A size of 0 returns at once and reads nothing.
read_response(c, size) ==
    IF ~Ok(c) THEN c
    ELSE IF size = 0 THEN [c EXCEPT !.value = <<>>]
    ELSE ReadResult(Logged([c EXCEPT !.late = 0], "read_response", size,
                           Len(c.rx) - c.late),
                    size, InTime(c.rx, c.late), Late(c.rx, c.late))

\* A call of a function of the device that is no read or write.
DeviceCall(c, f, arg) == IF ~Ok(c) THEN c ELSE Logged(c, f, arg, 0)

\* usb_purge_buffers and read_to_end leave nothing waiting to be read.
Drained(c, f) ==
    IF ~Ok(c) THEN c ELSE [Logged(c, f, 0, 0) EXCEPT !.rx = <<>>]

\* attach with the buffers purged before the bit mode is set.
attach_purge_first(c) ==
    write_all(write_all(write_all(
        Drained(DeviceCall(DeviceCall(Drained(DeviceCall(c,
            "usb_reset", 0), "usb_purge_buffers"), "set_latency_timer", 1),
            "set_bitmode", 11), "read_to_end"),
        <<128, 8, 11>>), <<130, 0, 0>>), <<133>>)

\* attach: output 0x0008, direction 0x000b.
attach(c) ==
    write_all(write_all(write_all(
        Drained(Drained(DeviceCall(DeviceCall(DeviceCall(c,
            "usb_reset", 0), "set_latency_timer", 1), "set_bitmode", 11),
            "usb_purge_buffers"), "read_to_end"),
        <<128, 8, 11>>), <<130, 0, 0>>), <<133>>)

\* ------------------------------------------------------ bit-engine encoder

RECURSIVE ShiftTmsCommand(_, _)
\* The while loop of shift_tms.
ShiftTmsCommand(data, bits) ==
    IF bits = 0 THEN <<>>
    ELSE IF bits >= 8
    THEN <<75, 7, data[1]>> \o ShiftTmsCommand(Tail(data), bits - 8)
    ELSE <<75, bits - 1, data[1]>>

shift_tms(c, data, bits) ==
    IF ~Ok(c) THEN c
    ELSE IF ~(bits > 0) \/ ~((bits + 7) \div 8 <= Len(data)) THEN Fail(c, "panic")
    ELSE write_all(c, ShiftTmsCommand(data, bits))

\* full_bytes of shift_tdi and tranfer_tdi, and the bits left after them.
FullBytes(bits) == (bits - 1) \div 8

RestBits(bits) == bits - FullBytes(bits) * 8

\* The command with TMS low on its last clock as on the others.
TdiCommandTmsLow(data, bits, capture) ==
    LET full_bytes == FullBytes(bits)
        rest == RestBits(bits)
        byte == data[full_bytes + 1]
        last_bit == Bit(byte, rest - 1)
        tms_byte == 128 * last_bit
    IN  (IF full_bytes > 0
         THEN <<IF capture THEN 57 ELSE 25,
                (full_bytes - 1) % 256, (full_bytes - 1) \div 256>>
              \o SubSeq(data, 1, full_bytes)
         ELSE <<>>)
        \o (IF rest > 1 THEN <<IF capture THEN 59 ELSE 27, rest - 2, byte>> ELSE <<>>)
        \o <<IF capture THEN 107 ELSE 75, 0, tms_byte>>

\* The command of shift_tdi (capture = FALSE: 0x19, 0x1b, 0x4b) and of
\* tranfer_tdi (capture = TRUE: 0x39, 0x3b, 0x6b).
TdiCommand(data, bits, capture) ==
    LET full_bytes == FullBytes(bits)
        rest == RestBits(bits)
        byte == data[full_bytes + 1]
        last_bit == Bit(byte, rest - 1)
        tms_byte == 1 + 128 * last_bit
    IN  (IF full_bytes > 0
         THEN <<IF capture THEN 57 ELSE 25,
                (full_bytes - 1) % 256, (full_bytes - 1) \div 256>>
              \o SubSeq(data, 1, full_bytes)
         ELSE <<>>)
        \o (IF rest > 1 THEN <<IF capture THEN 59 ELSE 27, rest - 2, byte>> ELSE <<>>)
        \o <<IF capture THEN 107 ELSE 75, 0, tms_byte>>

shift_tdi(c, data, bits) ==
    IF ~Ok(c) THEN c
    ELSE IF ~(bits > 0) \/ ~((bits + 7) \div 8 <= Len(data)) THEN Fail(c, "panic")
    ELSE write_all(c, TdiCommand(data, bits, FALSE))

\* The reply of tranfer_tdi put together from the bytes read: the byte of the
\* last clock contributes its bit 0, the byte before it is taken as it is.
DecodeReply(reply, bits) ==
    LET full_bytes == FullBytes(bits)
        rest == RestBits(bits)
        n == Len(reply)
        last_bit == reply[n] % 2
        last_byte == IF rest > 1
                     THEN LET byte == reply[n - 1]
                          IN  \* byte | (last_bit << (rest - 1)), as a u8
                              byte + (IF Bit(byte, rest - 1) = 0
                                      THEN last_bit * 2^(rest - 1) ELSE 0)
                     ELSE last_bit
    IN  [i \in 1..(full_bytes + 1) |->
            IF i = full_bytes + 1 THEN last_byte ELSE reply[i]]

\* expect_bytes with one byte for all of the remaining bits.
ExpectBytesOnePartial(bits) == FullBytes(bits) + 1

ExpectBytes(bits) == FullBytes(bits) + 1 + (IF RestBits(bits) > 1 THEN 1 ELSE 0)

\* tranfer_tdi from the read of the reply on.
Decoded(c, bits) ==
    IF ~Ok(c) THEN c ELSE [c EXCEPT !.value = DecodeReply(c.value, bits)]

tranfer_tdi(c, data, bits) ==
    IF ~Ok(c) THEN c
    ELSE IF ~(bits > 0) \/ ~((bits + 7) \div 8 <= Len(data)) THEN Fail(c, "panic")
    ELSE Decoded(read_response(write_all(c, TdiCommand(data, bits, TRUE)),
                               ExpectBytes(bits)), bits)

\* --------------------------------------------------------- TAP controller

\* A reset of four clocks with TMS high and one with TMS low.
reset_four_high(c) == shift_tms(c, <<15>>, 5)

\* A reset that keeps TMS high on all of its 40 clocks.
reset_all_high(c) == shift_tms(c, <<255, 255, 255, 255, 255>>, 40)

reset(c) == shift_tms(c, <<255, 255, 255, 255, 127>>, 40)

idle(c, cycles) ==
    IF cycles = 0 THEN c
    ELSE shift_tms(c, Fill((cycles + 7) \div 8, 0), cycles)

\* shift_ir taking the DR branch: TMS 1,0,0 in place of 1,1,0,0.
shift_ir_by_dr(c, data, bits) ==
    shift_tms(shift_tdi(shift_tms(c, <<1>>, 3), data, bits), <<1>>, 2)

shift_ir(c, data, bits) ==
    shift_tms(shift_tdi(shift_tms(c, <<3>>, 4), data, bits), <<1>>, 2)

transfer_ir(c, data, bits) ==
    shift_tms(tranfer_tdi(shift_tms(c, <<3>>, 4), data, bits), <<1>>, 2)

transfer_dr(c, data, bits) ==
    shift_tms(tranfer_tdi(shift_tms(c, <<1>>, 3), data, bits), <<1>>, 2)

\* ----------------------------------------------------------- chain scanner

max_device_count == 8

RECURSIVE FoundTargets(_, _)
\* The IDCODE loop of scan from word i on: one target per 32-bit word of the
\* reply, up to the first word 0xffffffff.
FoundTargets(r, i) ==
    IF i = max_device_count THEN <<>>
    ELSE LET idcode == SubSeq(r, 4 * i + 1, 4 * i + 4)
         IN  IF idcode # <<255, 255, 255, 255>>
             THEN <<[idcode |-> idcode, irlen |-> 0]>> \o FoundTargets(r, i + 1)
             ELSE <<>>

RECURSIVE OrNat(_, _)
\* a | b
OrNat(a, b) ==
    IF a = 0 THEN b ELSE IF b = 0 THEN a
    ELSE (IF a % 2 = 1 \/ b % 2 = 1 THEN 1 ELSE 0) + 2 * OrNat(a \div 2, b \div 2)

RECURSIVE TrailingZeros(_)
\* u32::trailing_zeros
TrailingZeros(x) ==
    IF x = 0 THEN 32 ELSE IF x % 2 = 1 THEN 0 ELSE 1 + TrailingZeros(x \div 2)

\* The test scan makes of the accumulator before it takes an IR length.
IrBoundary(ir) == ir % 4 = 1

RECURSIVE IrLenPass(_, _, _, _, _)
\* The IR-length loop of scan from target i on.  irbits is a u32 that the
\* release build lets wrap below zero: it is held as the signed reading of
\* its 32 bits, so that `irbits < 8` is 0 <= irbits < 8.  tests logs the
\* accumulator as each target's boundary test finds it, first is the target
\* at which something first overflowed (0: nothing did).
IrLenPass(targets, i, r, ir, irbits) ==
    IF i > Len(targets)
    THEN [status |-> "ok", targets |-> targets, overflowed |-> FALSE,
          tests |-> <<>>, first |-> 0]
    ELSE
    LET pull == Len(r) > 0 /\ irbits >= 0 /\ irbits < 8
        r1 == IF pull THEN Tail(r) ELSE r
        ir1 == IF pull THEN OrNat(ir, r[1] * 2^irbits) ELSE ir
        irbits1 == IF pull THEN irbits + 8 ELSE irbits
        ir2 == ir1 - 1
        irlen == TrailingZeros(ir2)
        \* `ir >> irlen` with irlen = 32, `irbits -= irlen` below zero
        overflows == irlen >= 32 \/ (irbits1 >= 0 /\ irbits1 < irlen)
        rest == IrLenPass([targets EXCEPT ![i].irlen = irlen], i + 1, r1,
                          ir2 \div 2^(irlen % 32), irbits1 - irlen)
    IN  IF ~IrBoundary(ir1)
        THEN [status |-> "InvalidData", targets |-> <<>>, overflowed |-> FALSE,
              tests |-> <<Event("ir", ir1, i)>>, first |-> 0]
        ELSE [rest EXCEPT !.overflowed = @ \/ overflows,
                          !.tests = <<Event("ir", ir1, i)>> \o @,
                          !.first = IF overflows THEN i ELSE @]

\* scan from the end of the IR-length loop on.
ScanReturn(c, pass) ==
    IF pass.status # "ok" THEN Fail(Overflow(c, pass.overflowed), pass.status)
    ELSE [Overflow(c, pass.overflowed) EXCEPT
            !.value = pass.targets, !.scanned = pass.targets, !.scan_ok = TRUE]

\* The boundary tests of the IR-length loop put on the log: those up to the
\* first overflow, where the debug build panics, and the later ones.
TestsLogged(c, tests, a, b) ==
    [c EXCEPT !.events = @ \o SubSeq(tests, a, b)]

ScanTested(c, pass) ==
    ScanReturn(TestsLogged(Overflow(TestsLogged(c, pass.tests, 1, pass.first),
                                    pass.overflowed),
                           pass.tests, pass.first + 1, Len(pass.tests)),
               pass)

\* scan from the reply of transfer_ir on.
ScanLengths(c, targets) ==
    IF ~Ok(c) THEN c
    ELSE ScanTested(c, IrLenPass(targets, 1, c.value, 0, 0))

\* scan from the reply of transfer_dr on.
ScanTargets(c) ==
    IF ~Ok(c) THEN c
    ELSE ScanLengths(transfer_ir(reset(c), Fill(max_device_count, 255),
                                 max_device_count * 8),
                     FoundTargets(c.value, 0))

scan(c) ==
    ScanTargets(transfer_dr(reset(c), Fill(max_device_count * 4, 255),
                            max_device_count * 4 * 8))

\* ------------------------------------------------- addressed register access

RECURSIVE ParamsLoopBeforeAsAfter(_, _, _, _)
\* The loop with the TAPs before the match counted as those after it.
ParamsLoopBeforeAsAfter(taps, i, idcode, acc) ==
    IF i > Len(taps) THEN acc
    ELSE LET tap == taps[i]
             p == acc.params
         IN  ParamsLoopBeforeAsAfter(taps, i + 1, idcode,
                IF tap.idcode = idcode
                THEN [found |-> TRUE, params |-> [p EXCEPT !.irlen = tap.irlen]]
                ELSE [acc EXCEPT !.params.irpost = @ + tap.irlen,
                                 !.params.drpost = @ + 1])

RECURSIVE ParamsLoop(_, _, _, _)
\* The loop of select_target over taps i.. with params and found so far.
ParamsLoop(taps, i, idcode, acc) ==
    IF i > Len(taps) THEN acc
    ELSE LET tap == taps[i]
             p == acc.params
         IN  ParamsLoop(taps, i + 1, idcode,
                IF tap.idcode = idcode
                THEN [found |-> TRUE, params |-> [p EXCEPT !.irlen = tap.irlen]]
                ELSE IF acc.found
                THEN [acc EXCEPT !.params.irpost = @ + tap.irlen,
                                 !.params.drpost = @ + 1]
                ELSE [acc EXCEPT !.params.irpre = @ + tap.irlen,
                                 !.params.drpre = @ + 1])

\* params and found as select_target starts its loop with them.
NoneFound ==
    [found |-> FALSE,
     params |-> [irpre |-> 0, irpost |-> 0, drpre |-> 0, drpost |-> 0,
                 irlen |-> 0]]

\* select_target storing what its loop counted whether a TAP was found or
\* not.
SelectReturnStoring(c, end) ==
    IF end.found THEN [c EXCEPT !.params = end.params, !.value = <<>>]
    ELSE Fail([c EXCEPT !.params = end.params], "NotFound")

\* select_target from the end of its loop on.
SelectReturn(c, end) ==
    IF end.found THEN [c EXCEPT !.params = end.params, !.value = <<>>]
    ELSE Fail(c, "NotFound")

\* select_target from the return of scan on.
SelectAmong(c, idcode) ==
    IF ~Ok(c) THEN c
    ELSE SelectReturn(c, ParamsLoop(c.value, 1, idcode, NoneFound))

\* select_target without its check that a TAP was found.
SelectAmongUnchecked(c, idcode) ==
    IF ~Ok(c) THEN c
    ELSE [c EXCEPT !.params = ParamsLoop(c.value, 1, idcode, NoneFound).params,
                   !.value = <<>>]

select_target_unchecked(c, idcode) == SelectAmongUnchecked(scan(c), idcode)

select_target(c, idcode) == SelectAmong(scan(c), idcode)

\* get_chain_params handing out empty parameters when none are stored.
get_chain_params_or_default(c) ==
    IF ~Ok(c) THEN c
    ELSE IF c.params = None
    THEN [c EXCEPT !.params = [irpre |-> 0, irpost |-> 0, drpre |-> 0,
                               drpost |-> 0, irlen |-> 5]]
    ELSE c

get_chain_params(c) ==
    IF ~Ok(c) THEN c
    ELSE IF c.params = None THEN Fail(c, "Other")
    ELSE c

\* A u32 as its 32 bits, for a number below 2^31.
U32Bits(n) == [i \in 1..32 |-> IF i = 32 THEN 0 ELSE Bit(n, i - 1)]

\* (1 << n) - 1 for n < 32
Ones(n) == [i \in 1..32 |-> IF i <= n THEN 1 ELSE 0]

\* x << s for s < 32: the bits shifted past bit 31 are lost.
Shl(x, s) == [i \in 1..32 |-> IF i > s THEN x[i - s] ELSE 0]

Or32(x, y) == [i \in 1..32 |-> IF x[i] = 1 \/ y[i] = 1 THEN 1 ELSE 0]

\* A shift of a u32 by s >= 32 overflows: a panic with overflow checks, a
\* shift by s % 32 without.
ShiftOverflows(s) == s >= 32

\* The address check one too high.
AddressAboveLimit(address, irlen) == address > 2^(irlen % 32)

\* address > max_address, with max_address = (1 << irlen) - 1 as the release
\* build computes it; addresses are below 2^31.
AddressTooBig(address, irlen) ==
    LET s == irlen % 32 IN s < 31 /\ address > 2^s - 1

\* The IR word of target_transfer.
IrWord(p, address) ==
    Or32(Or32(Ones(p.irpre % 32), Shl(U32Bits(address), p.irpre % 32)),
         Shl(Ones(p.irpost % 32), (p.irpre + p.irlen) % 32))

Min(a, b) == IF a < b THEN a ELSE b

\* The DR request for Some(data): drpre zero bits, the bits of data cut to
\* len_bits, drpost zero bits.
DrRequest(p, data, len_bits) ==
    BytesOf(Fill(p.drpre, 0)
            \o BitsOf(data, Min(len_bits, 8 * Len(data)))
            \o Fill(p.drpost, 0))

\* The reply with its first drpre bits split off and cut to len_bits.
DrReply(p, reply, len_bits) ==
    LET bits == BitsOf(reply, 8 * Len(reply))
        rest == SubSeq(bits, p.drpre + 1, Len(bits))
    IN  BytesOf(SubSeq(rest, 1, Min(len_bits, Len(rest))))

\* target_transfer from the return of idle on; reply is what transfer_dr
\* returned.
TransferReturn(c, reply, len_bits) ==
    IF ~Ok(c) THEN c
    ELSE [c EXCEPT !.value = DrReply(c.params, reply, len_bits)]

\* target_transfer from the return of transfer_dr on.
TransferReply(c, len_bits) ==
    IF ~Ok(c) THEN c
    ELSE IF c.params.drpre + len_bits + c.params.drpost < c.params.drpre
    THEN Fail(c, "panic")
    ELSE TransferReturn(idle(c, idle_cycles), c.value, len_bits)

\* target_transfer from the return of get_chain_params on; data is None or
\* Some(buffer).
TransferWith(c, address, data, len_bits) ==
    LET p == c.params
        irbits == p.irpre + p.irlen + p.irpost
        drbits == p.drpre + len_bits + p.drpost
        request == IF data # None THEN DrRequest(p, data.some, len_bits)
                   ELSE Fill((drbits + 7) \div 8, 0)
        over1 == ShiftOverflows(p.irlen)
        over2 == ShiftOverflows(p.irpre) \/ ShiftOverflows(p.irpost)
                 \/ ShiftOverflows(p.irpre + p.irlen)
    IN  IF ~Ok(c) THEN c
        ELSE IF AddressTooBig(address, p.irlen)
        THEN Fail(Overflow(c, over1), "InvalidInput")
        ELSE IF ~(irbits <= 32) THEN Fail(Overflow(c, over1), "panic")
        ELSE TransferReply(
                transfer_dr(shift_ir(Overflow(c, over1 \/ over2),
                                     BytesOf(IrWord(p, address)), irbits),
                            request, drbits),
                len_bits)

target_transfer(c, address, data, len_bits) ==
    TransferWith(get_chain_params(c), address, data, len_bits)

read_register(c, address, len) == target_transfer(c, address, None, len)

\* r[0..4] of a reply shorter than 4 bytes panics.
First4(c) ==
    IF ~Ok(c) THEN c
    ELSE IF Len(c.value) < 4 THEN Fail(c, "panic")
    ELSE [c EXCEPT !.value = SubSeq(c.value, 1, 4)]

read_register32(c, address) == First4(read_register(c, address, 32))

write_register(c, address, data, len) ==
    target_transfer(c, address, Some(data), len)

\* value is the u32 as its 4 little-endian bytes.
write_register32(c, address, value) ==
    First4(write_register(c, address, value, 32))

\* A call of a method, and the engine at work for write_all.
Do(c, call) ==
    CASE call.f = "write_all" -> Written(c, call.data, Mpsse(c.dev, call.data))
      [] call.f = "attach" -> attach(c)
      [] call.f = "tranfer_tdi" -> tranfer_tdi(c, call.data, call.bits)
      [] call.f = "reset" -> reset(c)
      [] call.f = "idle" -> idle(c, call.bits)
      [] call.f = "shift_ir" -> shift_ir(c, call.data, call.bits)
      [] call.f = "transfer_ir" -> transfer_ir(c, call.data, call.bits)
      [] call.f = "transfer_dr" -> transfer_dr(c, call.data, call.bits)
      [] call.f = "scan" -> scan(c)
      [] call.f = "select_target" -> select_target(c, call.id)
      [] call.f = "read_register" -> read_register(c, call.address, call.bits)
      [] call.f = "write_register" ->
            write_register(c, call.address, call.data, call.bits)
      [] call.f = "read_register32" -> read_register32(c, call.address)
      [] call.f = "write_register32" ->
            write_register32(c, call.address, call.data)

\* ------------------------------------------------------------ the system

\* IDCODEs as little-endian bytes: 0x1000563d, 0x20000913, 0x4ba00477,
\* 0x020f30dd.
TapA == [idcode |-> <<61, 86, 0, 16>>, irlen |-> 5]

TapB == [idcode |-> <<19, 9, 0, 32>>, irlen |-> 5]

TapC == [idcode |-> <<119, 4, 160, 75>>, irlen |-> 4]

TapD == [idcode |-> <<221, 48, 15, 2>>, irlen |-> 10]

TapKinds == {TapA, TapB, TapC, TapD}

IdCodes == {k.idcode : k \in TapKinds}

\* Longest chain.
MaxTaps == 8

\* No TAP, one or two TAPs of any kinds, and longer chains of 4-bit TAPs with
\* at most one 5-bit TAP among them.
Chains ==
    {<<>>} \cup {<<a>> : a \in TapKinds} \cup {<<a, b>> : a, b \in TapKinds}
    \cup {[i \in 1..k |-> IF i = p THEN TapA ELSE TapC] :
              k \in 3..MaxTaps, p \in 0..MaxTaps}

\* The probe as open() and attach() leave it, on a chain just powered up:
\* the TAPs in Test-Logic-Reset holding IDCODE, TMS high (attach drives
\* output 0x08), no target selected, idle_cycles 0.
InitOn(chains) ==
    /\ chain \in chains
    /\ build = "unknown"
    /\ undef \in {0, 1}
    /\ dev = [fsm |-> "TLR", tms |-> 1,
              instr |-> [i \in 1..Len(chain) |-> 1],
              reg |-> [i \in 1..Len(chain) |-> Fill(32, 0)],
              irsr |-> <<>>, drsr |-> <<>>]
    /\ rx = <<>>
    /\ chain_params = None
    /\ idle_cycles = 0
    /\ alive = TRUE
    /\ last = [op |-> "attach", arg |-> [NoArg EXCEPT !.f = "attach"],
               status |-> "ok", value |-> <<>>,
               writes |-> <<>>, tms |-> <<>>, tdi |-> <<>>, walk |-> <<>>,
               scanned |-> <<>>, scan_ok |-> FALSE, from |-> "TLR",
               events |-> <<>>]

\* call returns in context c (or panics in it), which shows the build to
\* be as given or leaves it open.
Return(call, c, shown) ==
    /\ dev' = c.dev
    /\ rx' = c.rx
    /\ chain_params' = c.params
    /\ alive' = (c.status # "panic")
    /\ build' = shown
    /\ last' = [op |-> call.f, arg |-> call, status |-> c.status,
                value |-> c.value, writes |-> c.writes, tms |-> c.tms,
                tdi |-> c.tdi, walk |-> c.walk, scanned |-> c.scanned,
                scan_ok |-> c.scan_ok, from |-> dev.fsm,
                events |-> c.events]
    /\ UNCHANGED <<chain, undef, idle_cycles>>

\* The ways a call that ran to context c can end: as the release build runs
\* it or, if something overflowed in it and the run has not shown the build
\* to be release, as the debug build does.
Returns(call, c) ==
    \/ Return(call, c, IF c.overflowed THEN "release" ELSE build)
    \/ /\ c.overflowed
       /\ build = "unknown"
       /\ Return(call, c.debug, "debug")

Call(call) == alive /\ Returns(call, Do(Begin, call))

SelectTarget(idcode) ==
    Call([NoArg EXCEPT !.f = "select_target", !.id = idcode])

Scan == Call([NoArg EXCEPT !.f = "scan"])

InitScan == InitOn(Chains)

NextScan ==
    \/ Scan
    \/ \E idcode \in IdCodes : SelectTarget(idcode)

ScanSpec == InitScan /\ [][NextScan]_vars

\* The probe on a short chain, at most one TAP of it the target, the others
\* 4-bit TAPs, and the calls of main's register check.  Farthest: the TAPs of the
\* longest such chain.
Farthest == 3

Target == TapA

NearChains ==
    {[i \in 1..k |-> IF i = p THEN Target ELSE TapC] : k \in 1..Farthest, p \in 1..Farthest}

\* Register addresses: 16 is a data register of the target, 32 is above what
\* its 5-bit IR can hold.
Addresses == {16, 32}

\* 0xdeadbeef and 0x00030000 as little-endian bytes.
Values == {<<239, 190, 173, 222>>, <<0, 0, 3, 0>>}

ReadRegister(address, len) ==
    Call([NoArg EXCEPT !.f = "read_register", !.address = address,
                       !.bits = len])

WriteRegister(address, data, len) ==
    Call([NoArg EXCEPT !.f = "write_register", !.address = address,
                       !.data = data, !.bits = len])

ReadRegister32(address) ==
    Call([NoArg EXCEPT !.f = "read_register32", !.address = address,
                       !.bits = 32])

WriteRegister32(address, value) ==
    Call([NoArg EXCEPT !.f = "write_register32", !.address = address,
                       !.data = value, !.bits = 32])

SetIdleCycles(n) ==
    /\ alive
    /\ idle_cycles' = n
    /\ last' = [op |-> "set_idle_cycles",
                arg |-> [NoArg EXCEPT !.f = "set_idle_cycles", !.bits = n],
                status |-> "ok", value |-> <<>>, writes |-> <<>>, tms |-> <<>>,
                tdi |-> <<>>, walk |-> <<>>, scanned |-> <<>>,
                scan_ok |-> FALSE, from |-> dev.fsm, events |-> <<>>]
    /\ UNCHANGED <<chain, build, undef, dev, rx, chain_params, alive>>

Init == InitOn(NearChains)

Next ==
    \/ \E idcode \in {Target.idcode, TapB.idcode} : SelectTarget(idcode)
    \/ \E a \in Addresses : ReadRegister(a, 32)
    \/ \E a \in Addresses, v \in Values : WriteRegister(a, v, 32)
    \/ \E a \in Addresses : ReadRegister32(a)
    \/ \E a \in Addresses, v \in Values : WriteRegister32(a, v)
    \/ \E n \in {0, 1} : SetIdleCycles(n)

Spec == Init /\ [][Next]_vars

\* The TAP controller's calls made one by one, in any order, on no TAP, on
\* the target alone and on the target behind a 4-bit TAP.
TapChains == {<<>>, <<Target>>, <<TapC, Target>>}

\* Shift payloads: IR code 16 and all ones, a DR word.
IrData == {<<16, 0>>, <<255, 255>>}

DrData == {<<239, 190, 173, 222, 0>>}

Reset == Call([NoArg EXCEPT !.f = "reset"])

Idle(cycles) == Call([NoArg EXCEPT !.f = "idle", !.bits = cycles])

ShiftIr(data, bits) ==
    Call([NoArg EXCEPT !.f = "shift_ir", !.data = data, !.bits = bits])

TransferIr(data, bits) ==
    Call([NoArg EXCEPT !.f = "transfer_ir", !.data = data, !.bits = bits])

TransferDr(data, bits) ==
    Call([NoArg EXCEPT !.f = "transfer_dr", !.data = data, !.bits = bits])

InitTap == InitOn(TapChains)

NextTap ==
    \/ Reset
    \/ \E cycles \in {0, 9} : Idle(cycles)
    \/ \E data \in IrData, bits \in {5, 9} : ShiftIr(data, bits)
    \/ \E data \in IrData, bits \in {1, 9} : TransferIr(data, bits)
    \/ \E data \in DrData, bits \in {32, 33} : TransferDr(data, bits)

TapSpec == InitTap /\ [][NextTap]_vars

\* tranfer_tdi on its own with TDO wired to TDI: no TAP on the chain, so
\* every bit sampled is the bit driven on that clock.  MaxBits: the longest
\* shift.
MaxBits == 64

\* Buffers long enough for MaxBits bits: 0xdeadbeef repeated, and zeros.
Buffers ==
    {[i \in 1..((MaxBits + 7) \div 8) |-> <<239, 190, 173, 222>>[((i - 1) % 4) + 1]],
     Fill((MaxBits + 7) \div 8, 0)}

TransferTdi(data, bits) ==
    Call([NoArg EXCEPT !.f = "tranfer_tdi", !.data = data, !.bits = bits])

InitTdi == InitOn({<<>>})

NextTdi == \E data \in Buffers, bits \in 1..MaxBits : TransferTdi(data, bits)

TdiSpec == InitTdi /\ [][NextTdi]_vars

\* The probe attached to a chain that was not powered up with it: an earlier
\* session has left the TAPs in any of the 16 states, with what Capture
\* loaded still in the shift path of a state of the shift columns.  attach,
\* reset and scan are called there.
WalkChains == {<<>>, <<Target>>}

Attach == Call([NoArg EXCEPT !.f = "attach"])

InitWalk ==
    /\ chain \in WalkChains
    /\ build = "unknown"
    /\ undef \in {0, 1}
    /\ \E s \in TapStates :
        dev = [fsm |-> s, tms |-> 1,
               instr |-> [i \in 1..Len(chain) |-> 1],
               reg |-> [i \in 1..Len(chain) |-> Fill(32, 0)],
               irsr |-> IF s \in {"ShiftIR", "Exit1IR", "PauseIR", "Exit2IR"}
                        THEN Flatten([i \in 1..Len(chain) |->
                                        <<1>> \o Fill(chain[i].irlen - 1, 0)])
                        ELSE <<>>,
               drsr |-> IF s \in {"ShiftDR", "Exit1DR", "PauseDR", "Exit2DR"}
                        THEN Flatten([i \in 1..Len(chain) |->
                                        BitsOf(chain[i].idcode, 32)])
                        ELSE <<>>]
    /\ rx = <<>>
    /\ chain_params = None
    /\ idle_cycles = 0
    /\ alive = TRUE
    /\ last = [op |-> "open", arg |-> [NoArg EXCEPT !.f = "open"],
               status |-> "ok", value |-> <<>>,
               writes |-> <<>>, tms |-> <<>>, tdi |-> <<>>, walk |-> <<>>,
               scanned |-> <<>>, scan_ok |-> FALSE, from |-> dev.fsm,
               events |-> <<>>]

NextWalk ==
    \/ Attach
    \/ Reset
    \/ Scan

WalkSpec == InitWalk /\ [][NextWalk]_vars

\* Shifts of every length up to MaxShift on no TAP and on the target alone:
\* a data pattern into the instruction register, zeros into the data
\* register.
MaxShift == 17

\* 0xdeadbeef as little-endian bytes, and a byte more.
ShiftData == <<239, 190, 173, 222, 1>>

InitShift == InitOn(WalkChains)

NextShift ==
    \/ Reset
    \/ \E bits \in 1..MaxShift : ShiftIr(ShiftData, bits)
    \/ \E bits \in 1..MaxShift : TransferIr(ShiftData, bits)
    \/ \E bits \in 1..MaxShift : TransferDr(Fill(Len(ShiftData), 0), bits)

ShiftSpec == InitShift /\ [][NextShift]_vars

\* Register writes of 12 and of 32 bits from buffers of 1, 4 and 5 bytes:
\* shorter than, as long as and longer than the write.
WriteData == {<<239>>, <<239, 190, 173, 222>>, <<239, 190, 173, 222, 1>>}

WriteLens == {12, 32}

InitWrite == InitOn(NearChains)

NextWrite ==
    \/ SelectTarget(Target.idcode)
    \/ \E data \in WriteData, len \in WriteLens : WriteRegister(16, data, len)

WriteSpec == InitWrite /\ [][NextWrite]_vars

\* The target on a chain whose instruction registers add up to 32 bits, the
\* widest the IR word holds: two 7-bit TAPs (IDCODE 0x36024093), a 5-bit one
\* and two 4-bit ones, with the target before, among and after them.
TapE == [idcode |-> <<147, 64, 2, 54>>, irlen |-> 7]

WideChains ==
    {<<Target, TapE, TapE, TapB, TapC, TapC>>,
     <<TapE, TapE, TapB, Target, TapC, TapC>>,
     <<TapE, TapE, TapB, TapC, TapC, Target>>}

InitWide == InitOn(WideChains)

NextWide ==
    \/ SelectTarget(Target.idcode)
    \/ \E a \in {1, 16} : ReadRegister(a, 32)
    \/ \E v \in Values : WriteRegister32(16, v)

WideSpec == InitWide /\ [][NextWide]_vars

\* The operations of the probe in any order after a first reset, over a
\* link that may be slow: in Delayed the last byte of the reply to the
\* call's first read_response arrives only after its 10 ms have passed,
\* and stays in the receive buffer for the read after it.
LinkChains == {<<>>, <<Target>>}

\* The runs followed call the operations with the TAP where the operations
\* themselves leave it, the failed ones included (so the first call is
\* reset); from anywhere else the run goes on with reset.
Parked == dev.fsm \in {"RTI", "Exit1IR", "Exit1DR"}

Capturing ==
    {[NoArg EXCEPT !.f = "transfer_ir", !.data = <<16>>, !.bits = 5],
     [NoArg EXCEPT !.f = "transfer_dr", !.data = Fill(4, 0), !.bits = 32],
     [NoArg EXCEPT !.f = "select_target", !.id = Target.idcode],
     [NoArg EXCEPT !.f = "read_register", !.address = 16, !.bits = 32],
     [NoArg EXCEPT !.f = "write_register", !.address = 16,
                   !.data = Fill(4, 0), !.bits = 32]}

Delayed(call) == alive /\ Returns(call, Do([Begin EXCEPT !.late = 1], call))

InitLink == InitOn(LinkChains)

NextLink ==
    \/ Reset
    \/ Parked /\ Idle(1)
    \/ Parked /\ ShiftIr(<<16>>, 5)
    \/ Parked /\ \E call \in Capturing : Call(call)
    \/ Parked /\ \E idcode \in {TapB.idcode} : SelectTarget(idcode)
    \/ Parked /\ \E call \in Capturing : Delayed(call)

LinkSpec == InitLink /\ [][NextLink]_vars

\* ----------------------------------------------------------- chain discovery

RECURSIVE IrLenSum(_)
\* The IR lengths of a list of descriptors, added up.
IrLenSum(taps) ==
    IF taps = <<>> THEN 0 ELSE Head(taps).irlen + IrLenSum(Tail(taps))

\* select_target was the last call and it returned Ok.
Selected == last.op = "select_target" /\ last.status = "ok"

\* C1: scan of a chain of 0..8 TAPs, each with an IDCODE and a Capture-IR
\* value of 0...01, returns Ok with one descriptor per TAP, in chain order,
\* carrying that TAP's idcode and IR length; the empty chain gives the empty
\* list.
ScanFindsChain ==
    (last.op = "scan" /\ Len(chain) <= max_device_count)
        => (last.status = "ok" /\ last.value = chain)

\* scan has run on a single TAP whose IR is 10 bits long.
ScanOfLongIr == last.op = "scan" /\ chain = <<TapD>>

\* C2: the parameters select_target stores split the scanned chain at the
\* selected TAP's position p: irpre / drpre are the sum of IR lengths and the
\* count of the TAPs before p, irpost / drpost those of the TAPs after p, so
\* irpre + irlen + irpost is the chain's IR total and drpre + drpost + 1 its
\* TAP count.  Nothing is assumed about the IDCODEs being distinct.
ParamsSplitChain ==
    Selected =>
        LET taps == last.scanned
            k == Len(taps)
            cp == chain_params
        IN  /\ \E p \in 1..k :
                /\ taps[p].idcode = last.arg.id
                /\ cp.irlen = taps[p].irlen
                /\ cp.irpre = IrLenSum(SubSeq(taps, 1, p - 1))
                /\ cp.drpre = p - 1
                /\ cp.irpost = IrLenSum(SubSeq(taps, p + 1, k))
                /\ cp.drpost = k - p
            /\ cp.irpre + cp.irlen + cp.irpost = IrLenSum(taps)
            /\ cp.drpre + cp.drpost + 1 = k

\* select_target has succeeded on a chain of two TAPs with one IDCODE.
SelectedAmongTwins == Selected /\ chain = <<TapA, TapA>>

\* The chains of two 5-bit TAPs with different IDCODEs.
TwoFives ==
    {c \in Chains : Len(c) = 2 /\ c[1].irlen = 5 /\ c[2].irlen = 5
                               /\ c[1].idcode # c[2].idcode}

\* C3: on a chain of two 5-bit TAPs with different IDCODEs, select_target
\* of the second TAP's IDCODE returns Ok and stores irpre 5, drpre 1,
\* irpost 0, drpost 0, irlen 5.
SecondOfTwo ==
    (chain \in TwoFives /\ last.op = "select_target"
                        /\ last.arg.id = chain[2].idcode)
        => /\ last.status = "ok"
           /\ chain_params = [irpre |-> 5, drpre |-> 1, irpost |-> 0,
                              drpost |-> 0, irlen |-> 5]

\* The second of two different 5-bit TAPs has been selected.
SecondOfTwoSelected ==
    /\ chain = <<TapA, TapB>>
    /\ Selected
    /\ last.arg.id = TapB.idcode
    /\ chain_params.drpre = 1

\* The chain has no TAP with this IDCODE.
Absent(idcode) == \A i \in 1..Len(chain) : chain[i].idcode # idcode

\* C6: select_target of an IDCODE that no TAP of the scanned chain has,
\* the chain populated or empty, fails with NotFound.
AbsentIsNotFound ==
    (last.op = "select_target" /\ last.scan_ok /\ Absent(last.arg.id))
        => last.status = "NotFound"

\* select_target has looked on a populated chain for an IDCODE that is not
\* on it.
AbsentOnPopulated ==
    /\ last.op = "select_target" /\ last.scan_ok
    /\ chain = <<TapC, TapA>> /\ last.arg.id = TapB.idcode
    /\ Len(last.scanned) = 2

\* ------------------------------------------------------------ register access

\* The last call was a register read or write.
RegisterOp ==
    last.op \in {"read_register", "write_register", "read_register32",
                 "write_register32"}

\* C4: a register read or write at an address above 2^irlen - 1, irlen the
\* selected TAP's, fails with InvalidInput and writes nothing to the
\* transport: no IR shift, no DR transfer, no idle clocks.
AddressOutOfRange ==
    (RegisterOp /\ chain_params # None
                /\ last.arg.address > 2^chain_params.irlen - 1)
        => (last.status = "InvalidInput" /\ last.writes = <<>>)

\* A register write above the address range of the selected TAP has
\* returned.
WriteAboveRange ==
    /\ last.op = "write_register"
    /\ chain_params # None
    /\ last.arg.address = 32
    /\ chain_params.irlen = 5

\* C5: a register read or write, of any of the four forms, made while no
\* select_target has succeeded fails with Other ("target is not selected")
\* and writes nothing to the transport; parameters get stored only by a
\* select_target that returns Ok, so the transport is reached only after
\* one.
NotSelectedFails ==
    /\ []((RegisterOp /\ chain_params = None)
            => (last.status = "Other" /\ last.writes = <<>>))
    /\ [][(chain_params = None /\ chain_params' # None)
            => (last'.op = "select_target" /\ last'.status = "ok")]_vars

\* A 32-bit register read has been refused after a select_target that
\* failed.
ReadBeforeSelected ==
    last.op = "read_register32" /\ chain_params = None /\ last.status = "Other"

\* C7: write_register32(address, v) followed by read_register32(address),
\* both returning Ok, on a target register that captures what was last
\* updated into it: the read returns v, wherever the target sits in the
\* chain.
WriteThenRead ==
    [][(/\ last.op = "write_register32" /\ last.status = "ok"
        /\ last'.op = "read_register32" /\ last'.status = "ok"
        /\ last'.arg.address = last.arg.address)
       => last'.value = last.arg.data]_vars

\* A 32-bit read of the target's register has returned Ok on a chain of the
\* target alone.
ReadOfLoneTarget ==
    /\ last.op = "read_register32" /\ last.status = "ok"
    /\ chain = <<Target>>
    /\ last.value # <<0, 0, 0, 0>>

\* ------------------------------------------------------------- TAP controller

\* The states after each clock of an IR shift and of a DR shift of bits
\* bits that start in Run-Test/Idle.
IrWalk(bits) ==
    <<"SelectDR", "SelectIR", "CaptureIR", "ShiftIR">>
    \o Fill(bits - 1, "ShiftIR") \o <<"Exit1IR", "UpdateIR", "RTI">>

DrWalk(bits) ==
    <<"SelectDR", "CaptureDR", "ShiftDR">>
    \o Fill(bits - 1, "ShiftDR") \o <<"Exit1DR", "UpdateDR", "RTI">>

\* Every clock of the last call moved the TAP along an edge of the 16-state
\* machine, by the TMS level of that clock.
ValidWalk ==
    /\ Len(last.walk) = Len(last.tms)
    /\ \A i \in 1..Len(last.walk) :
        /\ last.walk[i] \in TapStates
        /\ last.walk[i] = TapNext(IF i = 1 THEN last.from ELSE last.walk[i - 1],
                                  last.tms[i])

\* C9: a composite operation that starts in Run-Test/Idle and returns Ok
\* walks the TAP machine along its edges and ends in Run-Test/Idle:
\* shift_ir and transfer_ir by Select-DR, Select-IR, Capture-IR, Shift-IR
\* for the data clocks, Exit1-IR, Update-IR; transfer_dr by Select-DR,
\* Capture-DR, Shift-DR for the data clocks, Exit1-DR, Update-DR; idle(n)
\* by n clocks in Run-Test/Idle.
WalksEndInIdle ==
    (/\ last.from = "RTI" /\ last.status = "ok"
     /\ last.op \in {"shift_ir", "transfer_ir", "transfer_dr", "idle"})
        => /\ ValidWalk
           /\ dev.fsm = "RTI"
           /\ last.op \in {"shift_ir", "transfer_ir"}
                => last.walk = IrWalk(last.arg.bits)
           /\ last.op = "transfer_dr" => last.walk = DrWalk(last.arg.bits)
           /\ last.op = "idle" => last.walk = Fill(last.arg.bits, "RTI")

\* transfer_dr of 33 bits has returned Ok from Run-Test/Idle on a chain of
\* two TAPs.
DrWalkDone ==
    /\ last.op = "transfer_dr" /\ last.from = "RTI" /\ last.status = "ok"
    /\ last.arg.bits = 33 /\ Len(chain) = 2

\* C10, as the code has it: reset issues exactly 40 TMS clocks, TMS high on
\* the first 39 of them and low on the 40th, which takes the TAP from
\* Test-Logic-Reset to Run-Test/Idle.
ResetEndsLow ==
    last.op = "reset"
        => /\ last.status = "ok"
           /\ Len(last.tms) = 40
           /\ \A i \in 1..39 : last.tms[i] = 1
           /\ last.tms[40] = 0
           /\ dev.fsm = "RTI"

\* C10, as stated: reset issues exactly 40 TMS clocks and TMS is high on
\* every one of them.
ResetAllHigh ==
    last.op = "reset"
        => /\ Len(last.tms) = 40
           /\ \A i \in 1..40 : last.tms[i] = 1

\* reset has returned, called with the TAP in Capture-IR.
ResetDone == last.op = "reset" /\ last.status = "ok" /\ last.from = "CaptureIR"

\* ---------------------------------------------------------- bit-engine encoder

\* C8: with TDO looped back to TDI, tranfer_tdi(data, n) for n in 1..64
\* returns ceil(n / 8) bytes whose low n bits, read LSB first, are the low n
\* bits of data.
LoopbackReturnsData ==
    (last.op = "tranfer_tdi" /\ NTaps = 0)
        => /\ last.status = "ok"
           /\ Len(last.value) = (last.arg.bits + 7) \div 8
           /\ BitsOf(last.value, last.arg.bits)
                = BitsOf(last.arg.data, last.arg.bits)

\* tranfer_tdi has returned one looped-back bit.
OneBitLoopedBack ==
    /\ last.op = "tranfer_tdi" /\ last.status = "ok" /\ NTaps = 0
    /\ last.arg.bits = 1 /\ last.arg.data[1] = 239

\* ------------------------------------------------------------------- walks

RECURSIVE ClocksOf(_)
\* The clocks a buffer of commands takes.
ClocksOf(cmd) ==
    IF cmd = <<>> THEN 0
    ELSE LET k == MpsseCommand(0, cmd)
         IN  Len(k.tms) + ClocksOf(SubSeq(cmd, k.used + 1, Len(cmd)))

RECURSIVE ClocksBefore(_)
\* The clocks of the last call before its write j.
ClocksBefore(j) ==
    IF j = 1 THEN 0 ELSE ClocksBefore(j - 1) + ClocksOf(last.writes[j - 1])

\* The state of the TAP as write j of the last call went out.
StartOf(j) ==
    IF ClocksBefore(j) = 0 THEN last.from ELSE last.walk[ClocksBefore(j)]

\* The writes of the last call that are an entry walk: TMS 1,1,0,0 towards
\* Shift-IR or TMS 1,0,0 towards Shift-DR.
EntryWrites ==
    {j \in 1..Len(last.writes) : last.writes[j] \in {<<75, 3, 3>>, <<75, 2, 1>>}}

\* C11: from every one of the 16 TAP states reset drives the TAP through
\* Test-Logic-Reset and leaves it in Run-Test/Idle when it returns, and
\* both passes of scan start their entry walk (TMS 1,0,0 of the IDCODE pass,
\* TMS 1,1,0,0 of the IR-length pass) in Run-Test/Idle.
ResetReachesIdle ==
    /\ last.op = "reset"
        => /\ last.status = "ok"
           /\ last.from \in TapStates
           /\ \E i \in 1..Len(last.walk) : last.walk[i] = "TLR"
           /\ dev.fsm = "RTI"
    /\ last.op = "scan"
        => /\ EntryWrites # {}
           /\ \A j \in EntryWrites : StartOf(j) = "RTI"
           /\ last.status \in {"ok", "InvalidData"} => Cardinality(EntryWrites) = 2

\* reset has returned, called with the TAP in Exit2-DR.
ResetFromExit2 == last.op = "reset" /\ last.from = "Exit2DR"

\* The last call was a shift into the instruction or the data register.
ShiftOp == last.op \in {"shift_ir", "transfer_ir", "transfer_dr"}

\* The state a shift leaves a shift state for on its last clock.
Exit1Of(s) == IF s = "ShiftIR" THEN "Exit1IR" ELSE "Exit1DR"

\* C12: shift_tdi and tranfer_tdi, as the second write of shift_ir,
\* transfer_ir and transfer_dr, clock exactly bits TCK cycles; TDI on clock
\* i is bit i of data, LSB first; TMS is 1 on the last clock and on no
\* other; a TAP that is in Shift-IR or Shift-DR stays there up to the last
\* clock, which takes it to Exit1, and has shifted exactly bits bits: the
\* 5-bit instruction register of the target holds the last 5 of them.
ShiftClocksBits ==
    ShiftOp =>
        LET n == last.arg.bits
            e == ClocksBefore(2)
            data == BitsOf(last.arg.data, n)
        IN  /\ last.status = "ok"
            /\ Len(last.writes) = 3
            /\ ClocksOf(last.writes[2]) = n
            /\ \A i \in 1..n :
                /\ last.tdi[e + i] = data[i]
                /\ last.tms[e + i] = (IF i = n THEN 1 ELSE 0)
            /\ StartOf(2) \in {"ShiftIR", "ShiftDR"}
                => /\ \A i \in 1..(n - 1) : last.walk[e + i] = StartOf(2)
                   /\ last.walk[e + n] = Exit1Of(StartOf(2))
            /\ (StartOf(2) = "ShiftIR" /\ chain = <<Target>>)
                => dev.instr[1]
                    = ValueOf(SubSeq(<<1, 0, 0, 0, 0>> \o data, n + 1, n + 5))

\* shift_ir has shifted 17 bits into the target's instruction register,
\* called in Run-Test/Idle.
SeventeenShifted ==
    /\ last.op = "shift_ir" /\ last.arg.bits = 17 /\ last.from = "RTI"
    /\ chain = <<Target>> /\ StartOf(2) = "ShiftIR"

\* The read_response calls of the last call, in order.
Reads == SelectSeq(last.events, LAMBDA e : e.ev = "read_response")

\* C13, as the code has it: tranfer_tdi reads back exactly full_bytes + 1
\* bytes when one bit remains after the bulk bytes and full_bytes + 2 when
\* 2..8 remain, full_bytes = (bits - 1) / 8 being the bytes sent with the
\* bulk command; that many bytes have arrived and the call returns Ok.
ReadsBackReply ==
    last.op = "tranfer_tdi" =>
        LET bits == last.arg.bits
            full_bytes == (bits - 1) \div 8
        IN  /\ Len(Reads) = 1
            /\ Reads[1].n = full_bytes
                             + (IF bits - 8 * full_bytes = 1 THEN 1 ELSE 2)
            /\ Reads[1].m = Reads[1].n
            /\ last.status = "ok"

\* C13, as stated: tranfer_tdi reads back exactly full_bytes bytes and one
\* more if a trailing partial byte exists.
ReadsBackOnePartial ==
    last.op = "tranfer_tdi" =>
        LET bits == last.arg.bits
            full_bytes == (bits - 1) \div 8
        IN  /\ Len(Reads) = 1
            /\ Reads[1].n = full_bytes
                             + (IF bits - 8 * full_bytes > 0 THEN 1 ELSE 0)

\* tranfer_tdi of 16 bits has read its reply: one bulk byte, 7 bits, 1 bit.
SixteenReadBack ==
    /\ last.op = "tranfer_tdi" /\ last.arg.bits = 16
    /\ Len(Reads) = 1 /\ Reads[1].m = 3

\* ------------------------------------------------------------ IR-length pass

\* The boundary tests of the last call, in order.
Tests == SelectSeq(last.events, LAMBDA e : e.ev = "ir")

\* C14: in the IR-length pass scan accepts the boundary of every target
\* whose test finds bit 0 of the accumulator set, and takes the count of
\* trailing zeros of the accumulator with bit 0 cleared as that target's
\* irlen; it fails with InvalidData only at a test that finds bit 0 clear,
\* and then returns no descriptors.
BoundaryByBitZero ==
    last.op = "scan" =>
        /\ \A k \in 1..Len(Tests) :
            Tests[k].n % 2 = 1
                => /\ k < Len(Tests) \/ last.status = "ok"
                   /\ last.status = "ok"
                        => last.value[k].irlen = TrailingZeros(Tests[k].n - 1)
        /\ last.status = "InvalidData"
            => /\ Tests # <<>>
               /\ Tests[Len(Tests)].n % 2 = 0
               /\ last.value = <<>>

\* scan has failed with InvalidData at a test that found bits 0 and 1 of the
\* accumulator set.
BoundaryRefused ==
    /\ last.op = "scan" /\ last.status = "InvalidData"
    /\ Tests # <<>> /\ Tests[Len(Tests)].n % 4 = 3

\* ------------------------------------------------------------- the DR request

\* The bits of data cut or zero-extended to n bits.
Resized(data, n) ==
    [i \in 1..n |-> IF i <= 8 * Len(data) THEN BitsOf(data, i)[i] ELSE 0]

\* C15: write_register with a buffer shorter or longer than len_bits does
\* not abort, and the DR transfer it makes (its fifth write: three of
\* shift_ir, the entry walk, the data) clocks exactly drpre + len_bits +
\* drpost bits: drpre zeros, the data cut or zero-extended to len_bits,
\* drpost zeros.
RequestIsResized ==
    (last.op = "write_register" /\ chain_params # None)
        => LET p == chain_params
               n == last.arg.bits
               e == ClocksBefore(5)
               request == Fill(p.drpre, 0) \o Resized(last.arg.data, n)
                          \o Fill(p.drpost, 0)
           IN  /\ last.status = "ok"
               /\ Len(last.writes) >= 5
               /\ ClocksOf(last.writes[5]) = p.drpre + n + p.drpost
               /\ \A i \in 1..Len(request) : last.tdi[e + i] = request[i]

\* A write of 12 bits from a buffer of one byte has returned Ok.
ShortWriteDone ==
    /\ last.op = "write_register" /\ last.status = "ok"
    /\ Len(last.arg.data) = 1 /\ last.arg.bits = 12

\* --------------------------------------------------------------- the IR word

\* C16: with stored parameters of irpre + irlen + irpost <= 32, the width
\* of exactly 32 included, and an address of at most 2^irlen - 1, a
\* register read or write shifts (in its second write) an IR word of
\* irpre + irlen + irpost bits: irpre ones, the irlen bits of address,
\* irpost ones; after Update-IR the selected TAP holds address and every
\* other TAP the all-ones BYPASS instruction.
IrWordSelects ==
    (/\ RegisterOp /\ chain_params # None
     /\ chain_params.irpre + chain_params.irlen + chain_params.irpost <= 32
     /\ last.arg.address <= 2^chain_params.irlen - 1)
        => LET p == chain_params
               e == ClocksBefore(2)
               word == Fill(p.irpre, 1) \o BitsOf(<<last.arg.address>>, p.irlen)
                       \o Fill(p.irpost, 1)
           IN  /\ last.status = "ok"
               /\ ClocksOf(last.writes[2]) = p.irpre + p.irlen + p.irpost
               /\ \A i \in 1..Len(word) : last.tdi[e + i] = word[i]
               /\ \A i \in 1..NTaps :
                    dev.instr[i] = IF i = p.drpre + 1 THEN last.arg.address
                                   ELSE BypassOf(i)

\* A register read has returned with the target selected behind 27 bits of
\* other instruction registers, 32 bits in all.
ReadAtFullWidth ==
    /\ last.op = "read_register" /\ chain_params # None
    /\ chain_params.irpre = 27 /\ chain_params.irlen = 5
    /\ chain_params.irpost = 0

\* ------------------------------------------------------------------ attach

\* Entry i of the log of the last call is ev with n.
At(i, ev, n) ==
    /\ i \in 1..Len(last.events)
    /\ last.events[i].ev = ev /\ last.events[i].n = n

\* The place of ev with n in the log of the last call, 0 if it has none.
IndexOf(ev, n) ==
    IF \E i \in 1..Len(last.events) : At(i, ev, n)
    THEN CHOOSE i \in 1..Len(last.events) : At(i, ev, n)
    ELSE 0

\* C18, as the code has it: attach resets the device, sets the latency
\* timer to 1, sets the bit mode (mask 0x0b), then purges the buffers and
\* reads away what is left, then sets the low pins (0x80) and the high
\* pins (0x82), then disables the loopback (0x85): eight steps and no
\* others, the purge after the bit mode.
AttachInOrder ==
    last.op = "attach" =>
        /\ Len(last.events) = 8
        /\ At(1, "usb_reset", 0)
        /\ At(2, "set_latency_timer", 1)
        /\ At(3, "set_bitmode", 11)
        /\ At(4, "usb_purge_buffers", 0)
        /\ At(5, "read_to_end", 0)
        /\ At(6, "write_all", 128)
        /\ At(7, "write_all", 130)
        /\ At(8, "write_all", 133)

\* C18, as stated: attach resets the device, then purges the buffers, then
\* sets the latency timer and the bit mode, then the pins, then disables
\* the loopback; the purge precedes the bit mode.
AttachPurgesFirst ==
    last.op = "attach" =>
        /\ 0 < IndexOf("usb_reset", 0)
        /\ IndexOf("usb_reset", 0) < IndexOf("usb_purge_buffers", 0)
        /\ IndexOf("usb_purge_buffers", 0) < IndexOf("set_latency_timer", 1)
        /\ IndexOf("usb_purge_buffers", 0) < IndexOf("set_bitmode", 11)
        /\ IndexOf("set_latency_timer", 1) < IndexOf("write_all", 128)
        /\ IndexOf("set_bitmode", 11) < IndexOf("write_all", 128)
        /\ IndexOf("write_all", 128) < IndexOf("write_all", 133)

\* attach has returned Ok on a chain that an earlier session had left in
\* Shift-DR.
AttachedInShiftDr ==
    /\ last.op = "attach" /\ last.status = "ok"
    /\ last.from = "ShiftDR"
    /\ At(8, "write_all", 133)

\* ------------------------------------------------------------- the slow link

\* C17: every read_response of a call but the last found exactly the bytes
\* it asked for; if the last one found fewer the call fails with TimedOut,
\* if it found more the call fails with InvalidData, and in both cases the
\* read is the last thing the call did (nothing is written or read again)
\* and its error is what the call returns; TimedOut is returned only so.
\* transfer_ir and transfer_dr return Ok only when their one read found
\* exactly the bytes asked for.
ReadIsExact ==
    LET n == Len(Reads)
    IN  /\ \A i \in 1..(n - 1) : Reads[i].m = Reads[i].n
        /\ n > 0 =>
              LET e == Reads[n]
              IN  /\ e.m < e.n => last.status = "TimedOut"
                  /\ e.m > e.n => last.status = "InvalidData"
                  /\ e.m # e.n => /\ last.events[Len(last.events)] = e
                                  /\ last.value = <<>>
        /\ last.status = "TimedOut" => n > 0 /\ Reads[n].m < Reads[n].n
        /\ (last.op \in {"transfer_ir", "transfer_dr"} /\ last.status = "ok")
              => /\ n = 1
                 /\ Reads[1].n = ExpectBytes(last.arg.bits)
                 /\ Reads[1].m = Reads[1].n

\* A read has found the byte that came late for the call before on top of
\* its own reply, and the call has failed with InvalidData.
StaleByteRefused ==
    /\ Reads # <<>> /\ Reads[Len(Reads)].m > Reads[Len(Reads)].n
    /\ last.status = "InvalidData"

\* C19: in a sequence of operations that begins with reset, failed ones
\* included, the TAP is in Run-Test/Idle whenever an operation sends its
\* entry walk towards Shift-IR or Shift-DR.
EntryFromIdle == \A j \in EntryWrites : StartOf(j) = "RTI"

\* An operation has sent its entry walk with the TAP in Exit1-IR, where
\* the failed operation before it left it.
EntryFromExit1 ==
    /\ last.from = "Exit1IR"
    /\ 1 \in EntryWrites

\* C20: the stored chain parameters change only in a select_target that
\* returns Ok, which stores the parameters of a TAP it found; a
\* select_target that fails, the register reads and writes, reset, idle and
\* the shifts leave them as they were.
ParamsChangeOnSelect ==
    [][chain_params' # chain_params
         => /\ last'.op = "select_target" /\ last'.status = "ok"
            /\ chain_params' # None]_vars

\* A select_target has failed with a target selected before it, whose
\* parameters are still stored.
FailedReselection ==
    /\ last.op = "select_target"
    /\ last.status \in {"NotFound", "TimedOut", "InvalidData"}
    /\ chain_params # None

====
